---- MODULE Spec2Model ----
(***************************************************************************)
(* Model of the two scripts of the Smart-pay repository:                   *)
(*   - Stock-crypto-portfolio-optimizer/.py : credential check and         *)
(*     construction of the chat-completion client and the assistant;       *)
(*   - run_crypto_demo.py : the portfolio / transaction / recommendation   *)
(*     demo.                                                               *)
(* One run executes one script (variable script).  pc names the statement  *)
(* the interpreter executes next.                                          *)
(***************************************************************************)
EXTENDS Integers, Sequences, FiniteSets, TLC

VARIABLES
    script,          \* which file the interpreter was started on
    pc,              \* next statement; "done" | "exited" | "crashed" at the end
    out,             \* what was printed, in order
    trace,           \* the steps executed, in order
    exitStatus,      \* -1 while running, else the process's exit status
    error,           \* "" or the name of the uncaught exception
    \* ---- Stock-crypto-portfolio-optimizer/.py
    envKey,          \* OPENAI_API_KEY in os.environ (None: not set)
    fileKey,         \* OPENAI_API_KEY in the .env file (None: not there)
    api_key,         \* the module's api_key
    getenvCalls,     \* how many times os.getenv was called
    client,          \* the clients constructed, in order
    assistant,       \* the assistants constructed, in order
    \* ---- run_crypto_demo.py
    platform,        \* sys.platform
    encoding,        \* sys.stdout's encoding
    portfolio,       \* the portfolio object's holdings: symbol -> [qty, price]
    total_value,     \* the module's total_value
    amount,          \* the module's amount, in 1/AmountDen of a currency unit
    purpose,         \* the module's purpose
    callArgs,        \* the arguments optimize_transaction was called with
    recommendation   \* the module's recommendation

vars == <<script, pc, out, trace, exitStatus, error, envKey, fileKey, api_key,
          getenvCalls, client, assistant, platform, encoding, portfolio,
          total_value, amount, purpose, callArgs, recommendation>>

bootVars == <<envKey, fileKey, api_key, getenvCalls, client, assistant>>
demoVars == <<platform, encoding, portfolio, total_value, amount, purpose,
              callArgs, recommendation>>

----------------------------------------------------------------------------
(* Bounds of the model. *)
MaxQty == 2          \* quantities held are 1..MaxQty
MaxPrice == 2        \* unit prices are 1..MaxPrice
RandDen == 4         \* random.random() yields k/RandDen, k in 0..RandDen-1

----------------------------------------------------------------------------
(* Python values. An optional string is <<>> (None) or <<s>>. *)
None == <<>>
Some(s) == <<s>>

PLACEHOLDER == "your_openai_api_key_here"
MODEL_NAME == "gpt-4o-mini"

KeyStrings ==
    { "", PLACEHOLDER, " ", "YOUR_OPENAI_API_KEY_HERE",
      " your_openai_api_key_here ", "sk-test" }

MaybeKeys == {None} \cup { Some(s) : s \in KeyStrings }

\* Python truthiness of an optional string: None and "" are falsy.
Truthy(k) == k # None /\ k # Some("")

----------------------------------------------------------------------------
(* Output lines, named by what they say. *)
WARNING_LINES == << "warning: set your OpenAI API key", "warning: replace placeholder" >>
SUCCESS_LINE == "client configured successfully"

(* Python's binding of a call's arguments to a function's parameters:      *)
(* positional arguments fill the parameters from the left, then each       *)
(* keyword argument must name a parameter that has no value yet.  The      *)
(* result is the error raised ("" for none) and the mapping parameter ->   *)
(* value.                                                                  *)
BindArguments(params, positional, keywords) ==
    LET filled == { params[i] : i \in 1..Len(positional) }
        names  == { params[i] : i \in 1..Len(params) }
        raised == [error |-> "TypeError", args |-> <<>>]
    IN  IF Len(positional) > Len(params) THEN raised
        ELSE IF filled \cap DOMAIN keywords # {} THEN raised
        ELSE IF ~(DOMAIN keywords \subseteq names) THEN raised
        ELSE IF filled \cup DOMAIN keywords # names THEN raised
        ELSE [error |-> "",
              args  |-> [ n \in names |->
                 IF n \in DOMAIN keywords THEN keywords[n]
                 ELSE positional[CHOOSE i \in 1..Len(positional) : params[i] = n] ]]

\* autogen_agentchat's AssistantAgent.__init__(self, name, model_client, *, ...)
AssistantAgentParams == << "name", "model_client" >>

\* load_dotenv(): a variable of the .env file is set unless the environment has it
load_dotenv(env, file) == IF env # None THEN env ELSE file

\* mutant: only the falsy keys are rejected, the placeholder is let through
KeyRejected_OnlyFalsy(k) == ~Truthy(k)

\* line 16: not api_key or api_key == "your_openai_api_key_here"
KeyRejected(k) == ~Truthy(k) \/ k = Some(PLACEHOLDER)

\* python ends a run on an uncaught exception with a traceback and status 1
Crash(exc) ==
    /\ pc' = "crashed"
    /\ error' = exc
    /\ exitStatus' = 1

LoadDotenv ==
    /\ script = "bootstrap" /\ pc = "b_load"
    /\ envKey' = load_dotenv(envKey, fileKey)
    /\ pc' = "b_getenv"
    /\ trace' = Append(trace, "load_dotenv")
    /\ UNCHANGED <<script, out, exitStatus, error, fileKey, api_key, getenvCalls,
                   client, assistant, demoVars>>

GetApiKey ==
    /\ script = "bootstrap" /\ pc = "b_getenv"
    /\ api_key' = envKey
    /\ getenvCalls' = getenvCalls + 1
    /\ pc' = "b_check"
    /\ trace' = Append(trace, "getenv")
    /\ UNCHANGED <<script, out, exitStatus, error, envKey, fileKey, client,
                   assistant, demoVars>>

CheckApiKey ==
    /\ script = "bootstrap" /\ pc = "b_check"
    /\ pc' = IF KeyRejected(api_key) THEN "b_warn" ELSE "b_client"
    /\ trace' = Append(trace, "check")
    /\ UNCHANGED <<script, out, exitStatus, error, bootVars, demoVars>>

PrintWarning ==
    /\ script = "bootstrap" /\ pc = "b_warn"
    /\ out' = out \o WARNING_LINES
    /\ pc' = "b_exit"
    /\ trace' = Append(trace, "warn")
    /\ UNCHANGED <<script, exitStatus, error, bootVars, demoVars>>

Exit1 ==
    /\ script = "bootstrap" /\ pc = "b_exit"
    /\ exitStatus' = 1
    /\ pc' = "exited"
    /\ trace' = Append(trace, "exit")
    /\ UNCHANGED <<script, out, error, bootVars, demoVars>>

ConstructClient ==
    /\ script = "bootstrap" /\ pc = "b_client"
    /\ client' = Append(client, [model |-> MODEL_NAME, api_key |-> api_key])
    /\ pc' = "b_assistant"
    /\ trace' = Append(trace, "client")
    /\ UNCHANGED <<script, out, exitStatus, error, envKey, fileKey, api_key,
                   getenvCalls, assistant, demoVars>>

\* lines 26-27: AssistantAgent(client, name="Assistant"), then the success message
ConstructAssistant ==
    /\ script = "bootstrap" /\ pc = "b_assistant"
    /\ trace' = Append(trace, "assistant")
    /\ LET bound == BindArguments(AssistantAgentParams, << client[Len(client)] >>,
                                  [ n \in {"name"} |-> "Assistant" ])
       IN  IF bound.error # ""
           THEN /\ Crash(bound.error)
                /\ UNCHANGED <<out, assistant>>
           ELSE /\ assistant' = Append(assistant, bound.args)
                /\ out' = Append(out, SUCCESS_LINE)
                /\ pc' = "done"
                /\ exitStatus' = 0
                /\ UNCHANGED error
    /\ UNCHANGED <<script, envKey, fileKey, api_key, getenvCalls, client, demoVars>>

BootNext ==
    \/ LoadDotenv
    \/ GetApiKey
    \/ CheckApiKey
    \/ PrintWarning
    \/ Exit1
    \/ ConstructClient
    \/ ConstructAssistant

----------------------------------------------------------------------------
(* run_crypto_demo.py *)

Platforms == {"win32", "linux"}
Symbols == {"BTC", "ETH"}
PURPOSES == << "payment to friend", "online purchase", "service payment" >>
Recommendations == {"pay with BTC", "pay with ETH"}

BANNER == "demo banner"
GENERATING == "generating random portfolio"
PORTFOLIO_TABLE == "portfolio table"
TRANSACTION_REQUEST == "transaction request"
ANALYZING == "analyzing portfolio"
DEMO_COMPLETE == "DEMO COMPLETE"

\* line 49: the bounds handed to random.uniform are total_value * 0.2 and * 0.4
LoTenths == 2
HiTenths == 4
\* amounts are kept in 1/AmountDen of a currency unit
AmountDen == 10 * RandDen

Range(f) == { f[x] : x \in DOMAIN f }

\* generate_random_portfolio(): a non-empty set of holdings
Holdings == [qty : 1..MaxQty, price : 1..MaxPrice]
generate_random_portfolio ==
    UNION { [S -> Holdings] : S \in (SUBSET Symbols) \ {{}} }

RECURSIVE SumValue(_, _)
SumValue(p, S) ==
    IF S = {} THEN 0
    ELSE LET s == CHOOSE x \in S : TRUE
         IN  p[s].qty * p[s].price + SumValue(p, S \ {s})

\* mutant: the total adds the quantities up and forgets the prices
get_portfolio_value_QtyOnly(p) ==
    [ total_value |-> SumValue([ s \in DOMAIN p |-> [qty |-> p[s].qty, price |-> 1] ],
                               DOMAIN p),
      n_assets |-> Cardinality(DOMAIN p) ]

\* portfolio.get_portfolio_value(): the derived totals of the holdings
get_portfolio_value(p) ==
    [ total_value |-> SumValue(p, DOMAIN p), n_assets |-> Cardinality(DOMAIN p) ]

\* mutant: a + b * random.random()
uniform_NoOffset(a, b) == { a * RandDen + b * k : k \in 0..(RandDen - 1) }

\* random.uniform(a, b) is a + (b - a) * random.random(), random() in [0, 1);
\* a and b in tenths of a unit, the result in 1/AmountDen of a unit
uniform(a, b) == { a * RandDen + (b - a) * k : k \in 0..(RandDen - 1) }

\* random.choice(seq): any element of a non-empty sequence
choice(seq) == { seq[i] : i \in 1..Len(seq) }

\* lines 8-12: on Windows stdout is reconfigured; a failure is swallowed
FixEncoding ==
    /\ script = "demo" /\ pc = "d_encoding"
    /\ \E ok \in BOOLEAN :
         encoding' = IF platform = "win32" /\ ok THEN "utf-8" ELSE encoding
    /\ pc' = "d_banner"
    /\ trace' = Append(trace, "encoding")
    /\ UNCHANGED <<script, out, exitStatus, error, bootVars, platform, portfolio,
                   total_value, amount, purpose, callArgs, recommendation>>

\* lines 17-28
PrintBanner ==
    /\ script = "demo" /\ pc = "d_banner"
    /\ out' = Append(out, BANNER)
    /\ pc' = "d_import"
    /\ trace' = Append(trace, "banner")
    /\ UNCHANGED <<script, exitStatus, error, bootVars, demoVars>>

\* lines 31-36: the import of crypto_portfolio_optimizer may raise
ImportOptimizer ==
    /\ script = "demo" /\ pc = "d_import"
    /\ trace' = Append(trace, "import")
    /\ \E ok \in BOOLEAN :
         IF ok THEN pc' = "d_generate" /\ UNCHANGED <<error, exitStatus>>
         ELSE Crash("ImportError")
    /\ UNCHANGED <<script, out, bootVars, demoVars>>

\* lines 39-40
GeneratePortfolio ==
    /\ script = "demo" /\ pc = "d_generate"
    /\ trace' = Append(trace, "generate")
    /\ out' = Append(out, GENERATING)
    /\ \E ok \in BOOLEAN :
         IF ok
         THEN /\ \E p \in generate_random_portfolio : portfolio' = p
              /\ pc' = "d_display"
              /\ UNCHANGED <<error, exitStatus>>
         ELSE /\ Crash("Exception")
              /\ UNCHANGED portfolio
    /\ UNCHANGED <<script, bootVars, platform, encoding, total_value, amount,
                   purpose, callArgs, recommendation>>

\* lines 43-44: portfolio.display_portfolio() prints and changes nothing
DisplayPortfolio ==
    /\ script = "demo" /\ pc = "d_display"
    /\ trace' = Append(trace, "display")
    /\ \E ok \in BOOLEAN :
         IF ok
         THEN /\ out' = Append(out, PORTFOLIO_TABLE)
              /\ pc' = "d_value"
              /\ UNCHANGED <<error, exitStatus>>
         ELSE /\ Crash("Exception")
              /\ UNCHANGED out
    /\ UNCHANGED <<script, bootVars, demoVars>>

\* mutant: the result of get_portfolio_value() is bound to the name portfolio
GetPortfolioValue_Rebind ==
    /\ script = "demo" /\ pc = "d_value"
    /\ trace' = Append(trace, "value")
    /\ \E ok \in BOOLEAN :
         IF ok
         THEN /\ portfolio' = get_portfolio_value(portfolio)
              /\ total_value' = portfolio'.total_value
              /\ pc' = "d_amount"
              /\ UNCHANGED <<error, exitStatus>>
         ELSE /\ Crash("Exception")
              /\ UNCHANGED <<total_value, portfolio>>
    /\ UNCHANGED <<script, out, bootVars, platform, encoding, amount,
                   purpose, callArgs, recommendation>>

\* lines 47-48: portfolio_data = portfolio.get_portfolio_value();
\*              total_value = portfolio_data['total_value']
GetPortfolioValue ==
    /\ script = "demo" /\ pc = "d_value"
    /\ trace' = Append(trace, "value")
    /\ \E ok \in BOOLEAN :
         IF ok
         THEN /\ total_value' = get_portfolio_value(portfolio).total_value
              /\ pc' = "d_amount"
              /\ UNCHANGED <<error, exitStatus>>
         ELSE /\ Crash("Exception")
              /\ UNCHANGED total_value
    /\ UNCHANGED <<script, out, bootVars, platform, encoding, portfolio, amount,
                   purpose, callArgs, recommendation>>

\* line 49: amount = random.uniform(total_value * 0.2, total_value * 0.4)
SampleAmount ==
    /\ script = "demo" /\ pc = "d_amount"
    /\ trace' = Append(trace, "amount")
    /\ \E a \in uniform(total_value * LoTenths, total_value * HiTenths) : amount' = a
    /\ pc' = "d_purpose"
    /\ UNCHANGED <<script, out, exitStatus, error, bootVars, platform, encoding,
                   portfolio, total_value, purpose, callArgs, recommendation>>

\* mutant: the choice is made and its result is dropped
ChoosePurpose_Unassigned ==
    /\ script = "demo" /\ pc = "d_purpose"
    /\ trace' = Append(trace, "purpose")
    /\ \E x \in choice(PURPOSES) : purpose' = purpose
    /\ pc' = "d_print_request"
    /\ UNCHANGED <<script, out, exitStatus, error, bootVars, platform, encoding,
                   portfolio, total_value, amount, callArgs, recommendation>>

\* lines 50-51: purpose = random.choice(purposes)
ChoosePurpose ==
    /\ script = "demo" /\ pc = "d_purpose"
    /\ trace' = Append(trace, "purpose")
    /\ \E x \in choice(PURPOSES) : purpose' = x
    /\ pc' = "d_print_request"
    /\ UNCHANGED <<script, out, exitStatus, error, bootVars, platform, encoding,
                   portfolio, total_value, amount, callArgs, recommendation>>

\* lines 53-58
PrintTransaction ==
    /\ script = "demo" /\ pc = "d_print_request"
    /\ trace' = Append(trace, "print_request")
    /\ out' = Append(out, TRANSACTION_REQUEST)
    /\ pc' = "d_recommend"
    /\ UNCHANGED <<script, exitStatus, error, bootVars, demoVars>>

\* mutant: the total value is passed where the amount belongs
RequestRecommendation_WrongArgs ==
    /\ script = "demo" /\ pc = "d_recommend"
    /\ trace' = Append(trace, "recommend")
    /\ out' = Append(out, ANALYZING)
    /\ callArgs' = Append(callArgs, [portfolio |-> portfolio,
                                     amount |-> total_value * AmountDen,
                                     purpose |-> purpose])
    /\ \E ok \in BOOLEAN :
         IF ok
         THEN /\ \E r \in Recommendations : recommendation' = r
              /\ pc' = "d_print_recommendation"
              /\ UNCHANGED <<error, exitStatus>>
         ELSE /\ Crash("ConnectionError")
              /\ UNCHANGED recommendation
    /\ UNCHANGED <<script, bootVars, platform, encoding, portfolio, total_value,
                   amount, purpose>>

\* mutant: the call is wrapped in try/except and the run goes on after a failure
RequestRecommendation_Swallow ==
    /\ script = "demo" /\ pc = "d_recommend"
    /\ trace' = Append(trace, "recommend")
    /\ out' = Append(out, ANALYZING)
    /\ callArgs' = Append(callArgs, [portfolio |-> portfolio, amount |-> amount,
                                     purpose |-> purpose])
    /\ \E ok \in BOOLEAN :
         IF ok
         THEN \E r \in Recommendations : recommendation' = r
         ELSE recommendation' = "recommendation unavailable"
    /\ pc' = "d_print_recommendation"
    /\ UNCHANGED <<script, exitStatus, error, bootVars, platform, encoding, portfolio,
                   total_value, amount, purpose>>

\* lines 61-62: recommendation = optimize_transaction(portfolio, amount, purpose);
\* the call returns a text or raises, and changes nothing of the portfolio
RequestRecommendation ==
    /\ script = "demo" /\ pc = "d_recommend"
    /\ trace' = Append(trace, "recommend")
    /\ out' = Append(out, ANALYZING)
    /\ callArgs' = Append(callArgs, [portfolio |-> portfolio, amount |-> amount,
                                     purpose |-> purpose])
    /\ \E ok \in BOOLEAN :
         IF ok
         THEN /\ \E r \in Recommendations : recommendation' = r
              /\ pc' = "d_print_recommendation"
              /\ UNCHANGED <<error, exitStatus>>
         ELSE /\ Crash("ConnectionError")
              /\ UNCHANGED recommendation
    /\ UNCHANGED <<script, bootVars, platform, encoding, portfolio, total_value,
                   amount, purpose>>

\* line 63
PrintRecommendation ==
    /\ script = "demo" /\ pc = "d_print_recommendation"
    /\ trace' = Append(trace, "print_recommendation")
    /\ out' = Append(out, recommendation)
    /\ pc' = "d_complete"
    /\ UNCHANGED <<script, exitStatus, error, bootVars, demoVars>>

\* lines 65-74
PrintComplete ==
    /\ script = "demo" /\ pc = "d_complete"
    /\ trace' = Append(trace, "complete")
    /\ out' = Append(out, DEMO_COMPLETE)
    /\ pc' = "done"
    /\ exitStatus' = 0
    /\ UNCHANGED <<script, error, bootVars, demoVars>>

DemoNext ==
    \/ FixEncoding
    \/ PrintBanner
    \/ ImportOptimizer
    \/ GeneratePortfolio
    \/ DisplayPortfolio
    \/ GetPortfolioValue
    \/ SampleAmount
    \/ ChoosePurpose
    \/ PrintTransaction
    \/ RequestRecommendation
    \/ PrintRecommendation
    \/ PrintComplete

----------------------------------------------------------------------------
Scripts == {"bootstrap", "demo"}

Init ==
    /\ script \in Scripts
    /\ pc = IF script = "bootstrap" THEN "b_load" ELSE "d_encoding"
    /\ out = <<>>
    /\ trace = <<>>
    /\ exitStatus = -1
    /\ error = ""
    /\ envKey \in IF script = "bootstrap" THEN MaybeKeys ELSE {None}
    /\ fileKey \in IF script = "bootstrap" THEN MaybeKeys ELSE {None}
    /\ api_key = None
    /\ getenvCalls = 0
    /\ client = <<>>
    /\ assistant = <<>>
    /\ platform \in IF script = "demo" THEN Platforms ELSE {"linux"}
    /\ encoding = "default"
    /\ portfolio = <<>>
    /\ total_value = 0
    /\ amount = 0
    /\ purpose = ""
    /\ callArgs = <<>>
    /\ recommendation = ""

Next == BootNext \/ DemoNext

Spec == Init /\ [][Next]_vars

----------------------------------------------------------------------------
(* Vocabulary of the properties. *)
Terminal == pc \in {"done", "exited", "crashed"}
Printed(line) == line \in Range(out)
Count(seq, x) == Cardinality({ i \in DOMAIN seq : seq[i] = x })
NoStepTwice == \A i, j \in DOMAIN trace : trace[i] = trace[j] => i = j
\* the step was executed and did not raise
Did(step) ==
    /\ step \in Range(trace)
    /\ ~(pc = "crashed" /\ trace[Len(trace)] = step)
IsPrefix(a, b) == Len(a) <= Len(b) /\ \A i \in DOMAIN a : a[i] = b[i]
KeyRead == script = "bootstrap" /\ Did("getenv")
\* what the claims call a missing, empty or placeholder key
BadKey == api_key = None \/ api_key = Some("") \/ api_key = Some("your_openai_api_key_here")

----------------------------------------------------------------------------
(* C1: with a missing, empty or placeholder key the bootstrap run prints   *)
(* the warning, then ends with exit status 1; no client and no assistant   *)
(* is ever constructed and the success message is never printed.           *)
C1_BadKeyExits ==
    (KeyRead /\ BadKey) =>
        /\ client = <<>> /\ assistant = <<>>
        /\ ~Printed(SUCCESS_LINE)
        /\ pc \in {"b_check", "b_warn", "b_exit", "exited"}
        /\ pc \in {"b_exit", "exited"} => out = WARNING_LINES
        /\ pc \in {"b_check", "b_warn"} => out = <<>>
        /\ pc = "exited" <=> exitStatus = 1
        /\ error = ""

C1_Witness ==
    /\ KeyRead /\ api_key = Some(PLACEHOLDER)
    /\ pc = "exited" /\ exitStatus = 1 /\ out = WARNING_LINES

(* C2: with a valid key the bootstrap run does not exit early and ends     *)
(* with exactly one client (model gpt-4o-mini, the key read) and exactly   *)
(* one assistant, the client first, the success message after both.        *)
C2_ValidKeyConstructs ==
    (KeyRead /\ ~BadKey) =>
        /\ pc # "exited" /\ ~Printed(WARNING_LINES[1])
        /\ Len(client) <= 1 /\ Len(assistant) <= 1
        /\ Len(assistant) = 1 => Len(client) = 1
        /\ Len(client) = 1 => client[1] = [model |-> "gpt-4o-mini", api_key |-> api_key]
        /\ Printed(SUCCESS_LINE) => Len(client) = 1 /\ Len(assistant) = 1
        /\ Terminal => Len(client) = 1 /\ Len(assistant) = 1 /\ Printed(SUCCESS_LINE)

(* C9: the key is read once, and every non-empty key other than the exact  *)
(* placeholder passes the check and leads to the construction of the       *)
(* client and of the assistant with that key.                              *)
C9_NoKeyValidation ==
    /\ getenvCalls <= 1
    /\ (KeyRead /\ api_key # None /\ api_key # Some("") /\ api_key # Some(PLACEHOLDER)) =>
          /\ getenvCalls = 1
          /\ pc \notin {"b_warn", "b_exit", "exited"}
          /\ Terminal => /\ Len(client) = 1 /\ client[1].api_key = api_key
                         /\ Len(assistant) = 1

(* C10: every run ends: the bootstrap at exit(1) or at the success         *)
(* message, the demo at the final banner or at an uncaught failure; no     *)
(* step is executed twice.                                                 *)
C10_RunsEnd ==
    /\ ~Terminal => ENABLED Next
    /\ NoStepTwice
    /\ (Terminal /\ script = "bootstrap") =>
          \/ pc = "exited" /\ exitStatus = 1
          \/ Printed(SUCCESS_LINE)
    /\ (Terminal /\ script = "demo") =>
          \/ Printed(DEMO_COMPLETE)
          \/ pc = "crashed"

----------------------------------------------------------------------------
DEMO_ORDER ==
    << "encoding", "banner", "import", "generate", "display", "value", "amount",
       "purpose", "print_request", "recommend", "print_recommendation", "complete" >>

HoldingValue(p, s) == IF s \in DOMAIN p THEN p[s].qty * p[s].price ELSE 0

(* C3: every sampled amount lies between 0.2 and 0.4 times the total value *)
(* returned by get_portfolio_value(): 2/10 * total <= amount <= 4/10 *     *)
(* total, the amount being amount / AmountDen.                             *)
C3_AmountInRange ==
    (script = "demo" /\ Did("amount")) =>
        /\ 2 * total_value * AmountDen <= 10 * amount
        /\ 10 * amount <= 4 * total_value * AmountDen

C3_Witness ==
    /\ script = "demo" /\ Did("amount")
    /\ total_value = 4
    /\ 2 * total_value * AmountDen < 10 * amount

(* C4: the total value the demo uses is the sum, over the holdings         *)
(* generated, of quantity times unit price.                                *)
C4_TotalIsSum ==
    (script = "demo" /\ Did("value")) =>
        total_value = HoldingValue(portfolio, "BTC") + HoldingValue(portfolio, "ETH")

C4_Witness ==
    /\ script = "demo" /\ Did("value")
    /\ DOMAIN portfolio = {"BTC", "ETH"}
    /\ portfolio["BTC"].qty = 2 /\ portfolio["BTC"].price = 2
    /\ total_value = 4 + portfolio["ETH"].qty * portfolio["ETH"].price

(* C5: the purpose is one of the three fixed strings, and a run creates    *)
(* exactly one transaction request: one amount, one purpose.               *)
C5_OnePurposeOfThree ==
    script = "demo" =>
        /\ Did("purpose") =>
              purpose \in {"payment to friend", "online purchase", "service payment"}
        /\ Count(trace, "amount") <= 1 /\ Count(trace, "purpose") <= 1
        /\ Count(out, TRANSACTION_REQUEST) <= 1
        /\ pc = "done" =>
              /\ Count(trace, "amount") = 1 /\ Count(trace, "purpose") = 1
              /\ Count(out, TRANSACTION_REQUEST) = 1

C5_Witness ==
    script = "demo" /\ pc = "done" /\ purpose = "service payment"

(* C6: the demo's steps run in the fixed order; the portfolio is displayed *)
(* after it is generated, amount and purpose are sampled after the         *)
(* display, the recommendation is requested once, after the sampling and   *)
(* with that portfolio, amount and purpose, and the result and the         *)
(* completion banner are printed after the recommendation has returned.    *)
C6_FixedOrder ==
    script = "demo" =>
        /\ IsPrefix(trace, DEMO_ORDER)
        /\ IsPrefix(out, << BANNER, GENERATING, PORTFOLIO_TABLE, TRANSACTION_REQUEST,
                            ANALYZING, recommendation, DEMO_COMPLETE >>)
        /\ Len(callArgs) = Count(trace, "recommend")
        /\ Len(callArgs) = 1 =>
              /\ Did("generate") /\ Did("display") /\ Did("amount") /\ Did("purpose")
              /\ callArgs[1] = [portfolio |-> portfolio, amount |-> amount,
                                purpose |-> purpose]
        /\ Printed(DEMO_COMPLETE) => Did("recommend") /\ recommendation \in Recommendations

C6_Witness ==
    /\ script = "demo" /\ pc = "done" /\ trace = DEMO_ORDER
    /\ Len(callArgs) = 1 /\ callArgs[1].purpose = "online purchase"

C8_FailureEndsRun ==
    script = "demo" =>
        /\ NoStepTwice
        /\ pc = "crashed" =>
              /\ ~ENABLED Next
              /\ error # "" /\ exitStatus = 1
              /\ ~Printed(DEMO_COMPLETE)
              /\ Range(out) \cap Recommendations = {}
        /\ Printed(DEMO_COMPLETE) =>
              /\ error = ""
              /\ Printed(recommendation) /\ recommendation \in Recommendations

C8_Witness ==
    /\ script = "demo" /\ pc = "crashed" /\ error = "ConnectionError"
    /\ trace[Len(trace)] = "recommend" /\ Printed(ANALYZING)

====
